---- MODULE Spec2Model ----
(***************************************************************************)
(* The NEMO infinite-loop detector (scripts/detect-loops.js): the source   *)
(* collector, the six regex detectors, the brace/string-aware block        *)
(* resolver and the report aggregator, as a state machine over one         *)
(* LoopDetector instance and the directory it scans.                       *)
(*                                                                         *)
(* A text is a sequence of one-character strings.  Offsets are 0-based as  *)
(* in JavaScript: the character at offset i of text t is t[i + 1].         *)
(***************************************************************************)
EXTENDS Integers, Sequences, FiniteSets, TLC

VARIABLES
  fsys,        \* the directory: a set of files [path, text, readable]
  exists,      \* whether the target root directory exists
  output,      \* this.output: TRUE when an output path was given
  findings,    \* this.findings
  pc,          \* position of detect(): "start", "scan", "done", "failed"
  files,       \* const files of detect(): the collected paths
  idx,         \* number of files the for-loop of detect() has processed
  console,     \* what report()/main printed: sequence of markers
  saved,       \* the report document written by saveReport(), or NoReport
  error,       \* the error detect() rejected with, or "none"
  returned,    \* the values detect() returned so far, one per call
  calls,       \* number of detect() calls made on this LoopDetector
  runs,        \* number of detect() calls made in all
  exitCode,    \* exit status of the node process of main(), -1 while it runs
  content,     \* findBlockEnd: its argument content
  startIndex,  \* findBlockEnd: its argument startIndex
  fbi,         \* findBlockEnd: loop variable i
  depth,       \* findBlockEnd: depth
  inString,    \* findBlockEnd: inString
  stringChar,  \* findBlockEnd: stringChar ("null" when null)
  fbRet,       \* findBlockEnd: returned offset, or -1 while running
  scanning,    \* server: state.scanning
  timers,      \* server: pending setTimeout(generateSpectrumData, 100) callbacks
  spectrum,    \* server: state.spectrum.data, as the number of its sample set
  reportFile,  \* server: the file ./loop-report.json, or NoFile
  requests     \* server: the POST /api/loops/detect requests, by number

scanVars == <<fsys, exists, output, findings, pc, files, idx, console, saved,
              error, returned, calls, runs, exitCode>>
fbVars == <<content, startIndex, fbi, depth, inString, stringChar, fbRet>>
srvVars == <<scanning, timers, spectrum, reportFile, requests>>
vars == <<fsys, exists, output, findings, pc, files, idx, console, saved,
          error, returned, calls, runs, exitCode, content, startIndex, fbi, depth, inString,
          stringChar, fbRet, scanning, timers, spectrum, reportFile, requests>>

-----------------------------------------------------------------------------
(* Bounds *)

MaxFiles == 2     \* files in the scanned directory
MaxRuns == 2      \* calls of detect()
MaxLen == 5       \* characters of a text given to findBlockEnd alone
MaxStart == 1     \* start offset given to findBlockEnd alone
MaxStmts == 2     \* statements in the body of a generated loop or function
MaxParts == 3     \* calls of a generated text
MaxTimers == 3    \* pending timers of the server
MaxRequests == 2  \* POST /api/loops/detect requests
MaxTotal == 2     \* findings of a scan that the server spawns
MaxSamples == 2   \* sample sets the spectrum generator can draw

-----------------------------------------------------------------------------
(* Characters and strings *)

LowerChars ==
  {"a","b","c","d","e","f","g","h","i","j","k","l","m",
   "n","o","p","q","r","s","t","u","v","w","x","y","z"}
UpperChars == {"F", "P"}
DigitChars == {"0","1","2","3","4","5","6","7","8","9"}

\* \w of a JavaScript regex (the upper-case letters the texts below use)
WordChars == LowerChars \cup UpperChars \cup DigitChars \cup {"_"}
\* \s of a JavaScript regex
SpaceChars == {" ", "\n", "\t", "\r"}

\* the template-literal quote (a string of the module cannot hold that
\* character, so it is named)
Backtick == "BACKTICK"

CharAt(t, i) == IF i >= 0 /\ i < Len(t) THEN t[i + 1] ELSE "undefined"

\* String.prototype.substring(from, to) for 0 <= from, to
substring(t, from, to) ==
  LET a == IF from > Len(t) THEN Len(t) ELSE from
      b == IF to > Len(t) THEN Len(t) ELSE to
  IN  IF a <= b THEN SubSeq(t, a + 1, b) ELSE SubSeq(t, b + 1, a)

\* whether text t has the characters of s at offset p
StartsAt(t, s, p) ==
  /\ p >= 0
  /\ p + Len(s) <= Len(t)
  /\ \A k \in 1..Len(s) : t[p + k] = s[k]

\* String.prototype.includes
includes(t, s) == \E p \in 0..(Len(t) - Len(s)) : StartsAt(t, s, p)

\* the elements of a sequence
Range(s) == {s[n] : n \in DOMAIN s}

RECURSIVE Concat(_)
Concat(ss) == IF ss = <<>> THEN <<>> ELSE Head(ss) \o Concat(Tail(ss))

\* String.prototype.trim
RECURSIVE trimStart(_)
trimStart(t) ==
  IF t # <<>> /\ Head(t) \in SpaceChars THEN trimStart(Tail(t)) ELSE t
RECURSIVE trimEnd(_)
trimEnd(t) ==
  IF t # <<>> /\ t[Len(t)] \in SpaceChars
  THEN trimEnd(SubSeq(t, 1, Len(t) - 1)) ELSE t
trim(t) == trimEnd(trimStart(t))

\* the number of "\n" in t
Newlines(t) == Cardinality({k \in 1..Len(t) : t[k] = "\n"})

\* getLineNumber splitting the whole text, not the text before index
getLineNumberWholeText(t, index) == Newlines(t) + 1

\* content.substring(0, index).split('\n').length
getLineNumber(t, index) == Newlines(substring(t, 0, index)) + 1

\* content.split('\n')[lineNum - 1]
lineOf(t, lineNum) ==
  LET nl == {k \in 1..Len(t) : t[k] = "\n"}
      before == {k \in nl : Cardinality({j \in nl : j <= k}) = lineNum - 1}
      from == IF lineNum = 1 THEN 1
              ELSE (CHOOSE k \in before : TRUE) + 1
      after == {k \in nl : k >= from}
      to == IF after = {} THEN Len(t)
            ELSE (CHOOSE k \in after : \A j \in after : k <= j) - 1
  IN  SubSeq(t, from, to)

-----------------------------------------------------------------------------
(* JavaScript regular expressions.                                         *)
(* A regex is a sequence of nodes; Ends gives every offset at which a      *)
(* match of the regex that starts at a given offset can end (with the text *)
(* of its capture group), so a match exists iff the backtracking matcher   *)
(* of JavaScript finds one.                                                *)

ClsOf(cs) == [neg |-> FALSE, cs |-> cs]
ClsNot(cs) == [neg |-> TRUE, cs |-> cs]
ClsSpace == ClsOf(SpaceChars)
ClsWord == ClsOf(WordChars)
QuoteChars == {"'", "\""}
InClass(c, cl) == (c \in cl.cs) # cl.neg

Lit(s) == [k |-> "lit", s |-> s]             \* the characters s
One(cl) == [k |-> "one", c |-> cl]           \* [class]
Rep(cl, lo) == [k |-> "rep", c |-> cl, lo |-> lo]  \* [class]* (lo 0), [class]+ (lo 1)
Opt(r) == [k |-> "opt", r |-> r]             \* (?:r)?
NotAhead(r) == [k |-> "nla", r |-> r]        \* (?!r)
Alt(rs) == [k |-> "alt", rs |-> rs]          \* r1|r2
Cap(r) == [k |-> "cap", r |-> r]             \* (r)
WordB == [k |-> "wb"]                        \* \b

\* the offset after the longest run of characters of class cl from offset p
RECURSIVE RunEnd(_, _, _)
RunEnd(t, cl, p) ==
  IF p < Len(t) /\ InClass(t[p + 1], cl) THEN RunEnd(t, cl, p + 1) ELSE p

RECURSIVE Ends(_, _, _)
RECURSIVE StepNode(_, _, _)
StepNode(n, t, st) ==
  CASE n.k = "lit" ->
         IF StartsAt(t, n.s, st.p) THEN {[st EXCEPT !.p = @ + Len(n.s)]} ELSE {}
    [] n.k = "one" ->
         IF st.p < Len(t) /\ InClass(t[st.p + 1], n.c)
         THEN {[st EXCEPT !.p = @ + 1]} ELSE {}
    [] n.k = "rep" ->
         {[st EXCEPT !.p = q] : q \in (st.p + n.lo)..RunEnd(t, n.c, st.p)}
    [] n.k = "opt" -> {st} \cup Ends(n.r, t, {st})
    [] n.k = "nla" -> IF Ends(n.r, t, {st}) = {} THEN {st} ELSE {}
    [] n.k = "alt" -> UNION {Ends(n.rs[a], t, {st}) : a \in DOMAIN n.rs}
    [] n.k = "cap" ->
         {[p |-> e.p, cap |-> SubSeq(t, st.p + 1, e.p)] : e \in Ends(n.r, t, {st})}
    [] n.k = "wb" ->
         IF (CharAt(t, st.p - 1) \in WordChars) # (CharAt(t, st.p) \in WordChars)
         THEN {st} ELSE {}
Ends(re, t, sts) ==
  IF sts = {} \/ re = <<>> THEN sts
  ELSE Ends(Tail(re), t, UNION {StepNode(Head(re), t, st) : st \in sts})

NoMatch == [index |-> 0 - 1, end |-> 0 - 1, cap |-> <<>>]

\* the characters a match of re can start with (any: no restriction known)
RECURSIVE firstChars(_)
firstChars(re) ==
  IF re = <<>> THEN [any |-> TRUE, cs |-> {}]
  ELSE LET n == Head(re)
           either(a, b) == [any |-> a.any \/ b.any, cs |-> a.cs \cup b.cs]
       IN  CASE n.k = "lit" -> [any |-> FALSE, cs |-> {n.s[1]}]
             [] n.k \in {"wb", "nla"} -> firstChars(Tail(re))
             [] n.k = "opt" -> either(firstChars(n.r \o Tail(re)), firstChars(Tail(re)))
             [] n.k = "cap" -> firstChars(n.r \o Tail(re))
             [] n.k = "alt" /\ Len(n.rs) = 2 ->
                  either(firstChars(n.rs[1] \o Tail(re)), firstChars(n.rs[2] \o Tail(re)))
             [] OTHER -> [any |-> TRUE, cs |-> {}]

\* the offsets at or after lastIndex where a match of re starts
matchStarts(re, t, lastIndex) ==
  LET first == firstChars(re)
  IN  {p \in lastIndex..Len(t) :
         /\ first.any \/ CharAt(t, p) \in first.cs
         /\ Ends(re, t, {[p |-> p, cap |-> <<>>]}) # {}}

\* RegExp.prototype.exec from lastIndex: the leftmost match at or after it.
\* match.index is index, match[0] is the text from index to end, match[1]
\* (or match[2]) is cap.  Every regex of the detectors ends with a literal
\* after a class that excludes it, so the end of a match is fixed by its start.
exec(re, t, lastIndex) ==
  LET matchAt(index, e) == [index |-> index, end |-> e.p, cap |-> e.cap]
      longest(es) == CHOOSE e \in es : \A o \in es : o.p <= e.p
      from(index) == matchAt(index, longest(Ends(re, t, {[p |-> index, cap |-> <<>>]})))
      leftmost(starts) ==
        IF starts = {} THEN NoMatch
        ELSE from(CHOOSE p \in starts : \A q \in starts : p <= q)
  IN  leftmost(matchStarts(re, t, lastIndex))

\* while ((match = regex.exec(content)) !== null) with the g flag, from a
\* regex whose lastIndex is lastIndex: the matches in order
RECURSIVE execAll(_, _, _)
execAll(re, t, lastIndex) ==
  LET loop(m) ==
        IF m.index < 0 THEN <<>>
        ELSE <<m>> \o execAll(re, t, IF m.end > m.index THEN m.end ELSE m.end + 1)
  IN  loop(exec(re, t, lastIndex))

\* the lastIndex of a regex object just created (a regex literal or new RegExp)
newLastIndex == 0

\* RegExp.prototype.test of a regex just created
test(re, t) == exec(re, t, newLastIndex).index >= 0

-----------------------------------------------------------------------------
(* findBlockEnd *)

fbStart(start) ==
  [i |-> start, depth |-> 0, inString |-> FALSE, stringChar |-> "null",
   ret |-> 0 - 1]

\* fbStep with the braces inside strings counted too
fbStepCountsQuoted(t, s) ==
  LET char == t[s.i + 1]
      d1 == IF char = "{" THEN s.depth + 1 ELSE s.depth
      d2 == IF char = "}" THEN d1 - 1 ELSE d1
      returns == char = "}" /\ d2 = 0
  IN  [i |-> IF returns THEN s.i ELSE s.i + 1, depth |-> d2, inString |-> FALSE,
       stringChar |-> "null", ret |-> IF returns THEN s.i + 1 ELSE 0 - 1]

\* fbStep with a string closed by any of the three quote characters
fbStepAnyQuoteCloses(t, s) ==
  LET char == t[s.i + 1]
      prevChar == CharAt(t, s.i - 1)
      opens == ~s.inString /\ char \in {"\"", "'", Backtick}
      closes == s.inString /\ char \in {"\"", "'", Backtick} /\ prevChar # "\\"
      inStr == IF opens THEN TRUE ELSE IF closes THEN FALSE ELSE s.inString
      strCh == IF opens THEN char ELSE IF closes THEN "null" ELSE s.stringChar
      d1 == IF ~inStr /\ char = "{" THEN s.depth + 1 ELSE s.depth
      d2 == IF ~inStr /\ char = "}" THEN d1 - 1 ELSE d1
      returns == ~inStr /\ char = "}" /\ d2 = 0
  IN  [i |-> IF returns THEN s.i ELSE s.i + 1, depth |-> d2, inString |-> inStr,
       stringChar |-> strCh, ret |-> IF returns THEN s.i + 1 ELSE 0 - 1]

\* one iteration of the for-loop of findBlockEnd, i < content.length
fbStep(t, s) ==
  LET char == t[s.i + 1]
      prevChar == CharAt(t, s.i - 1)
      opens == ~s.inString /\ char \in {"\"", "'", Backtick}
      closes == s.inString /\ char = s.stringChar /\ prevChar # "\\"
      inStr == IF opens THEN TRUE ELSE IF closes THEN FALSE ELSE s.inString
      strCh == IF opens THEN char ELSE IF closes THEN "null" ELSE s.stringChar
      d1 == IF ~inStr /\ char = "{" THEN s.depth + 1 ELSE s.depth
      d2 == IF ~inStr /\ char = "}" THEN d1 - 1 ELSE d1
      returns == ~inStr /\ char = "}" /\ d2 = 0
  IN  [i |-> IF returns THEN s.i ELSE s.i + 1, depth |-> d2, inString |-> inStr,
       stringChar |-> strCh, ret |-> IF returns THEN s.i + 1 ELSE 0 - 1]

RECURSIVE fbRun(_, _)
fbRun(t, s) ==
  IF s.ret >= 0 THEN s.ret
  ELSE IF s.i >= Len(t) THEN Len(t)
  ELSE fbRun(t, fbStep(t, s))

findBlockEnd(t, start) == fbRun(t, fbStart(start))

-----------------------------------------------------------------------------
(* The detectors.  A detector is given as the findings it pushes to        *)
(* this.findings, in order.  A description is <<text, text pasted to it>>. *)

ws == Rep(ClsSpace, 0)     \* \s*
ws1 == Rep(ClsSpace, 1)    \* \s+

\* content.split('\n')[lineNum - 1].trim()
codeLine(t, lineNum) == trim(lineOf(t, lineNum))

whilePatterns == <<
  [regex |-> <<Lit(<<"w", "h", "i", "l", "e">>), ws, Lit(<<"(">>), ws, Lit(<<"t", "r", "u", "e">>), ws, Lit(<<")">>)>>,
   type |-> "infinite-while", desc |-> "while(true) infinite loop"],
  [regex |-> <<Lit(<<"w", "h", "i", "l", "e">>), ws, Lit(<<"(">>), ws, Lit(<<"1">>), ws, Lit(<<")">>)>>,
   type |-> "infinite-while", desc |-> "while(1) infinite loop"],
  [regex |-> <<Lit(<<"w", "h", "i", "l", "e">>), ws, Lit(<<"(">>), ws, Lit(<<"!", "!", "t", "r", "u", "e">>), ws, Lit(<<")">>)>>,
   type |-> "infinite-while", desc |-> "Obfuscated infinite while"] >>

forPatterns == <<
  [regex |-> <<Lit(<<"f", "o", "r">>), ws, Lit(<<"(">>), ws, Lit(<<";">>), ws, Lit(<<";">>), ws, Lit(<<")">>)>>,
   type |-> "infinite-for", desc |-> "for(;;) infinite loop"],
  [regex |-> <<Lit(<<"f", "o", "r">>), ws, Lit(<<"(">>), ws, Lit(<<";">>), ws, Lit(<<"t", "r", "u", "e">>), ws,
               Lit(<<";">>), ws, Lit(<<")">>)>>,
   type |-> "infinite-for", desc |-> "for(;true;) infinite loop"] >>

\* /break\s*;/.test(blockContent)
hasBreak(blockContent) == test(<<Lit(<<"b", "r", "e", "a", "k">>), ws, Lit(<<";">>)>>, blockContent)
\* hasReturn matching only a return followed by a semicolon
hasReturnBare(blockContent) ==
  test(<<Lit(<<"r", "e", "t", "u", "r", "n">>), ws, Lit(<<";">>)>>, blockContent)

\* /return\s+/.test(blockContent)
hasReturn(blockContent) == test(<<Lit(<<"r", "e", "t", "u", "r", "n">>), ws1>>, blockContent)

\* the text a loop detector inspects for one match
blockContentOf(t, match) ==
  substring(t, match.index, findBlockEnd(t, match.index))

\* whether the body of the exec loop pushes a finding for this match
loopHasNoExit(t, match) ==
  LET noExit(blockContent) == ~hasBreak(blockContent) /\ ~hasReturn(blockContent)
  IN  noExit(blockContentOf(t, match))

\* the exec loop of one pattern of detectInfiniteWhile / detectInfiniteFor
loopPatternFindings(t, file, pat, suggestion) ==
  LET finding(lineNum) ==
        [file |-> file, line |-> lineNum, type |-> pat.type,
         severity |-> "critical", description |-> <<pat.desc, <<>> >>,
         code |-> codeLine(t, lineNum), suggestion |-> suggestion]
      pushed(ms) == [n \in 1..Len(ms) |-> finding(getLineNumber(t, ms[n].index))]
  IN  pushed(SelectSeq(execAll(pat.regex, t, newLastIndex),
                       LAMBDA m : loopHasNoExit(t, m)))

detectInfiniteWhile(t, file) ==
  Concat([n \in 1..Len(whilePatterns) |->
            loopPatternFindings(t, file, whilePatterns[n],
              "Add break condition or use setInterval/setTimeout for async loops")])

detectInfiniteFor(t, file) ==
  Concat([n \in 1..Len(forPatterns) |->
            loopPatternFindings(t, file, forPatterns[n],
              "Add loop termination condition or break statement")])

\* /(?:async\s+)?function\s+(\w+)\s*\([^)]*\)\s*\{/g
funcRegex ==
  <<Opt(<<Lit(<<"a", "s", "y", "n", "c">>), ws1>>), Lit(<<"f", "u", "n", "c", "t", "i", "o", "n">>), ws1, Cap(<<Rep(ClsWord, 1)>>),
    ws, Lit(<<"(">>), Rep(ClsNot({")"}), 0), Lit(<<")">>), ws, Lit(<<"{">>)>>

\* new RegExp(`\\b${funcName}\\s*\\(`, 'g'); funcName is \w+, all literal
selfCallRegex(funcName) == <<WordB, Lit(funcName), ws, Lit(<<"(">>)>>

\* hasBaseCase taking any return followed by white space for a base case
hasBaseCaseAnyReturn(funcBody) ==
  test(<<Lit(<<"r", "e", "t", "u", "r", "n">>), ws1>>, funcBody)

\* /return\s+(?!\s*\w+\s*\()/.test(funcBody) ||
\* /if\s*\([^)]+\)\s*\{[^}]*return[^}]*\}/.test(funcBody)
hasBaseCase(funcBody) ==
  \/ test(<<Lit(<<"r", "e", "t", "u", "r", "n">>), ws1,
            NotAhead(<<ws, Rep(ClsWord, 1), ws, Lit(<<"(">>)>>)>>, funcBody)
  \/ test(<<Lit(<<"i", "f">>), ws, Lit(<<"(">>), Rep(ClsNot({")"}), 1), Lit(<<")">>), ws,
            Lit(<<"{">>), Rep(ClsNot({"}"}), 0), Lit(<<"r", "e", "t", "u", "r", "n">>),
            Rep(ClsNot({"}"}), 0), Lit(<<"}">>)>>, funcBody)

\* whether the body of the exec loop pushes a finding for this match
recursionUnbounded(t, match) ==
  LET unbounded(funcBody) ==
        test(selfCallRegex(match.cap), funcBody) /\ ~hasBaseCase(funcBody)
  IN  unbounded(substring(t, match.index, findBlockEnd(t, match.index)))

detectRecursionWithoutBaseCase(t, file) ==
  LET pushed(ms) ==
        [n \in 1..Len(ms) |->
           [file |-> file, line |-> getLineNumber(t, ms[n].index),
            type |-> "unbounded-recursion", severity |-> "high",
            description |-> <<"Function '%s' may have unbounded recursion", ms[n].cap>>,
            code |-> <<"f", "u", "n", "c", "t", "i", "o", "n", " ">> \o ms[n].cap \o <<"(", ".", ".", ".", ")">>,
            suggestion |-> "Add a base case to prevent stack overflow"]]
  IN  pushed(SelectSeq(execAll(funcRegex, t, newLastIndex),
                       LAMBDA m : recursionUnbounded(t, m)))

blockingPatterns == <<
  [regex |-> <<Lit(<<"w", "h", "i", "l", "e">>), ws, Lit(<<"(">>), Rep(ClsNot({")"}), 1), Lit(<<")">>), ws,
               Lit(<<"{">>), Rep(ClsNot({"}"}), 0), Lit(<<"}">>)>>,
   type |-> "blocking-loop", desc |-> "Potentially blocking synchronous loop",
   checkAsync |-> TRUE],
  [regex |-> <<Lit(<<"f", "o", "r">>), ws, Lit(<<"(">>), Rep(ClsNot({")"}), 1), Lit(<<")">>), ws,
               Lit(<<"{">>), Rep(ClsNot({"}"}), 0), Lit(<<"}">>)>>,
   type |-> "blocking-loop", desc |-> "Potentially blocking synchronous for loop",
   checkAsync |-> TRUE] >>

\* checkAsync && /(fetch|readFile|query|request)\s*\(/.test(block) && !/await\s+/.test(block)
blocksOnAsync(pat, block) ==
  /\ pat.checkAsync
  /\ test(<<Alt(<< <<Lit(<<"f", "e", "t", "c", "h">>)>>, <<Lit(<<"r", "e", "a", "d", "F", "i", "l", "e">>)>>, <<Lit(<<"q", "u", "e", "r", "y">>)>>,
                  <<Lit(<<"r", "e", "q", "u", "e", "s", "t">>)>> >>), ws, Lit(<<"(">>)>>, block)
  /\ ~test(<<Lit(<<"a", "w", "a", "i", "t">>), ws1>>, block)

\* blockingPatternFindings with the severity of the promise detector
blockingPatternFindingsHigh(t, file, pat) ==
  LET pushed(ms) ==
        [n \in 1..Len(ms) |->
           [file |-> file, line |-> getLineNumber(t, ms[n].index), type |-> pat.type,
            severity |-> "high",
            description |-> <<pat.desc, <<" ", "w", "i", "t", "h", " ", "a", "s", "y", "n", "c", " ", "o", "p", "e", "r", "a", "t", "i", "o", "n", "s">> >>,
            code |-> trim(lineOf(substring(t, ms[n].index, ms[n].end), 1)),
            suggestion |-> "Use await or convert to async iterator"]]
  IN  pushed(SelectSeq(execAll(pat.regex, t, newLastIndex),
                       LAMBDA m : blocksOnAsync(pat, substring(t, m.index, m.end))))

blockingPatternFindings(t, file, pat) ==
  LET pushed(ms) ==
        [n \in 1..Len(ms) |->
           [file |-> file, line |-> getLineNumber(t, ms[n].index), type |-> pat.type,
            severity |-> "medium",
            description |-> <<pat.desc, <<" ", "w", "i", "t", "h", " ", "a", "s", "y", "n", "c", " ", "o", "p", "e", "r", "a", "t", "i", "o", "n", "s">> >>,
            code |-> trim(lineOf(substring(t, ms[n].index, ms[n].end), 1)),
            suggestion |-> "Use await or convert to async iterator"]]
  IN  pushed(SelectSeq(execAll(pat.regex, t, newLastIndex),
                       LAMBDA m : blocksOnAsync(pat, substring(t, m.index, m.end))))

detectBlockingPatterns(t, file) ==
  Concat([n \in 1..Len(blockingPatterns) |->
            blockingPatternFindings(t, file, blockingPatterns[n])])

promisePatterns == <<
  [regex |-> <<Lit(<<"P", "r", "o", "m", "i", "s", "e", ".", "a", "l", "l">>), ws, Lit(<<"(">>), ws, Lit(<<"[">>), ws, Lit(<<"]">>), ws,
               Lit(<<")">>)>>,
   type |-> "empty-promise-all",
   desc |-> "Promise.all with empty array (may indicate logic error)"],
  [regex |-> <<Lit(<<"a", "w", "a", "i", "t">>), ws1, Lit(<<"n", "e", "w">>), ws1, Lit(<<"P", "r", "o", "m", "i", "s", "e">>), ws, Lit(<<"(">>), ws,
               Lit(<<"(">>), ws, Lit(<<")">>), ws, Lit(<<"=", ">">>)>>,
   type |-> "unresolved-promise",
   desc |-> "Promise never resolves (no resolve/reject callback)"] >>

\* promisePatternFindings with if in place of while: the first match only
promisePatternFirstOnly(t, file, pat) ==
  LET finding(lineNum) ==
        [file |-> file, line |-> lineNum, type |-> pat.type,
         severity |-> "high", description |-> <<pat.desc, <<>> >>,
         code |-> codeLine(t, lineNum)]
      pushed(m) == IF m.index < 0 THEN <<>> ELSE <<finding(getLineNumber(t, m.index))>>
  IN  pushed(exec(pat.regex, t, newLastIndex))

promisePatternFindings(t, file, pat) ==
  LET finding(lineNum) ==
        [file |-> file, line |-> lineNum, type |-> pat.type,
         severity |-> "high", description |-> <<pat.desc, <<>> >>,
         code |-> codeLine(t, lineNum)]
      pushed(ms) == [n \in 1..Len(ms) |-> finding(getLineNumber(t, ms[n].index))]
  IN  pushed(execAll(pat.regex, t, newLastIndex))

detectPromiseDeadlocks(t, file) ==
  Concat([n \in 1..Len(promisePatterns) |->
            promisePatternFindings(t, file, promisePatterns[n])])

\* /\.on\s*\(\s*['"]([^'"]+)['"]\s*,/g
addListenerRegex ==
  <<Lit(<<".", "o", "n">>), ws, Lit(<<"(">>), ws, One(ClsOf(QuoteChars)),
    Cap(<<Rep(ClsNot(QuoteChars), 1)>>), One(ClsOf(QuoteChars)), ws, Lit(<<",">>)>>

\* /\.off\s*\(\s*['"]([^'"]+)['"]\s*,|\.removeListener\s*\(\s*['"]([^'"]+)['"]\s*,/g
\* (cap is match[1] || match[2]: the group of the alternative that matched)
removeListenerRegex ==
  <<Alt(<< <<Lit(<<".", "o", "f", "f">>), ws, Lit(<<"(">>), ws, One(ClsOf(QuoteChars)),
             Cap(<<Rep(ClsNot(QuoteChars), 1)>>), One(ClsOf(QuoteChars)), ws, Lit(<<",">>)>>,
           <<Lit(<<".", "r", "e", "m", "o", "v", "e", "L", "i", "s", "t", "e", "n", "e", "r">>), ws, Lit(<<"(">>), ws, One(ClsOf(QuoteChars)),
             Cap(<<Rep(ClsNot(QuoteChars), 1)>>), One(ClsOf(QuoteChars)), ws,
             Lit(<<",">>)>> >>)>>

\* the elements of a sequence in order of first occurrence (a Set's
\* iteration order)
RECURSIVE insertionOrder(_, _)
insertionOrder(s, seen) ==
  IF s = <<>> THEN <<>>
  ELSE IF Head(s) \in seen THEN insertionOrder(Tail(s), seen)
  ELSE <<Head(s)>> \o insertionOrder(Tail(s), seen \cup {Head(s)})

\* The characters of event names the texts of this model use.  In the source
\* of a regex "." is any character but a line break, "+" repeats the atom
\* before it and "(" opens a group; the others stand for themselves.
EventChars == LowerChars \cup DigitChars \cup {"-", ":", ".", "+", "("}

\* new RegExp(`\\.on\\s*\\(\\s*['\"]${event}['\"]`): the event name is pasted
\* into the source unescaped.  ok is FALSE when the constructor throws a
\* SyntaxError: a "+" after a "+" (nothing to repeat), or a "(" (with no ")"
\* in EventChars the group is unterminated).
RECURSIVE compileSource(_, _)
compileSource(src, acc) ==
  IF src = <<>> \/ ~acc.ok THEN acc
  ELSE LET c == Head(src)
           last == acc.re[Len(acc.re)]
       IN  compileSource(Tail(src),
             CASE c = "(" -> [acc EXCEPT !.ok = FALSE]
               [] c = "+" ->
                    IF last.k = "one"
                    THEN [acc EXCEPT !.re = SubSeq(acc.re, 1, Len(acc.re) - 1)
                                             \o <<Rep(last.c, 1)>>]
                    ELSE [acc EXCEPT !.ok = FALSE]
               [] c = "." -> [acc EXCEPT !.re = Append(@, One(ClsNot({"\n", "\r"})))]
               [] OTHER -> [acc EXCEPT !.re = Append(@, One(ClsOf({c})))])

eventRegex(event) ==
  LET head == [ok |-> TRUE,
               re |-> <<Lit(<<".", "o", "n">>), ws, Lit(<<"(">>), ws, One(ClsOf(QuoteChars))>>]
      body == compileSource(event, head)
  IN  [body EXCEPT !.re = Append(@, One(ClsOf(QuoteChars)))]

\* the for-loop over added: the findings pushed, and whether new RegExp threw
RECURSIVE leakLoop(_, _, _, _)
leakLoop(t, file, added, removed) ==
  IF added = <<>> THEN [findings |-> <<>>, threw |-> FALSE]
  ELSE LET event == Head(added)
           rest == leakLoop(t, file, Tail(added), removed)
           onMatch(lineMatch) ==
             IF lineMatch.index < 0 THEN rest
             ELSE [rest EXCEPT !.findings =
                     <<[file |-> file,
                        line |-> getLineNumber(t, lineMatch.index),
                        type |-> "event-leak", severity |-> "low",
                        description |->
                          <<"Event listener '%s' added but never removed", event>>,
                        suggestion |->
                          "Call .off() or .removeListener() when done"]>> \o @]
           onRegex(re) ==
             IF ~re.ok THEN [findings |-> <<>>, threw |-> TRUE]
             ELSE onMatch(exec(re.re, t, newLastIndex))
       IN  IF event \in removed THEN rest ELSE onRegex(eventRegex(event))

detectEventEmitterLeaks(t, file) ==
  LET added(adds) == insertionOrder([n \in 1..Len(adds) |-> adds[n].cap], {})
      removed(rems) == {rems[n].cap : n \in 1..Len(rems)}
  IN  leakLoop(t, file, added(execAll(addListenerRegex, t, newLastIndex)),
               removed(execAll(removeListenerRegex, t, newLastIndex)))

\* scanFile with the promise detector called first
scanFilePromiseFirst(t, file) ==
  LET pushed(leaks) ==
        [findings |-> detectPromiseDeadlocks(t, file)
                      \o detectInfiniteWhile(t, file) \o detectInfiniteFor(t, file)
                      \o detectRecursionWithoutBaseCase(t, file)
                      \o detectBlockingPatterns(t, file) \o leaks.findings,
         threw |-> leaks.threw]
  IN  pushed(detectEventEmitterLeaks(t, file))

\* the body of the for-loop of detect() after the read: the six detectors in
\* order; the findings pushed, and whether a detector threw
scanFile(t, file) ==
  LET pushed(leaks) ==
        [findings |-> detectInfiniteWhile(t, file) \o detectInfiniteFor(t, file)
                      \o detectRecursionWithoutBaseCase(t, file)
                      \o detectBlockingPatterns(t, file)
                      \o detectPromiseDeadlocks(t, file) \o leaks.findings,
         threw |-> leaks.threw]
  IN  pushed(detectEventEmitterLeaks(t, file))

-----------------------------------------------------------------------------
(* The source collector *)

\* this.target: options.target || './src'
target == <<".", "/", "s", "r", "c">>

extensions == << <<"j", "s">>, <<"t", "s">>, <<"j", "s", "x">>, <<"t", "s", "x">> >>

\* the characters of the paths of this model, in code-unit order
PathCharOrder ==
  <<".", "/", "_", "a", "b", "c", "d", "e", "f", "g", "h", "i", "j", "k", "l", "m",
    "n", "o", "p", "q", "r", "s", "t", "u", "v", "w", "x", "y", "z">>
CharRank(c) == CHOOSE n \in 1..Len(PathCharOrder) : PathCharOrder[n] = c

\* a < b in lexicographic order
RECURSIVE LexLess(_, _)
LexLess(a, b) ==
  IF b = <<>> THEN FALSE
  ELSE IF a = <<>> THEN TRUE
  ELSE IF Head(a) = Head(b) THEN LexLess(Tail(a), Tail(b))
  ELSE CharRank(Head(a)) < CharRank(Head(b))

\* the paths of a set as a sequence in lexicographic order
RECURSIVE sortPaths(_)
sortPaths(ps) ==
  IF ps = {} THEN <<>>
  ELSE LET least == CHOOSE p \in ps : \A q \in ps \ {p} : LexLess(p, q)
       IN  <<least>> \o sortPaths(ps \ {least})

endsWith(t, s) == Len(s) <= Len(t) /\ StartsAt(t, s, Len(t) - Len(s))

\* glob.sync(`${this.target}/**/*.${ext}`): the files under the target whose
\* name ends in .ext, at any depth, sorted (glob sorts its result unless
\* nosort is set); none when the target does not exist
globSync(dir, ext) ==
  sortPaths({target \o <<"/">> \o f.path :
               f \in {g \in dir : endsWith(g.path, <<".">> \o ext)}})

\* getSourceFiles with one glob over the four extensions: one sorted list
getSourceFilesSorted(dir) ==
  SelectSeq(sortPaths(UNION {Range(globSync(dir, extensions[n])) : n \in 1..Len(extensions)}),
            LAMBDA f : ~includes(f, <<"n", "o", "d", "e", "_", "m", "o", "d", "u", "l", "e", "s">>))

getSourceFiles(dir) ==
  SelectSeq(Concat([n \in 1..Len(extensions) |-> globSync(dir, extensions[n])]),
            LAMBDA f : ~includes(f, <<"n", "o", "d", "e", "_", "m", "o", "d", "u", "l", "e", "s">>))

\* path.relative(process.cwd(), file) for a file below the working directory
relative(file) == IF StartsAt(file, <<".", "/">>, 0) THEN SubSeq(file, 3, Len(file)) ELSE file

\* the file of the directory that glob reported as file
fileAt(dir, file) == CHOOSE f \in dir : target \o <<"/">> \o f.path = file

-----------------------------------------------------------------------------
(* detect(), report(), saveReport() and main() *)

NoReport == [written |-> FALSE]

countOf(fs, sev) == Len(SelectSeq(fs, LAMBDA f : f.severity = sev))

\* summaryOf with the high filter comparing with 'High'
summaryOfHighTypo(fs) ==
  [total |-> Len(fs), critical |-> countOf(fs, "critical"), high |-> countOf(fs, "High"),
   medium |-> countOf(fs, "medium"), low |-> countOf(fs, "low")]

\* the summary of saveReport()
summaryOf(fs) ==
  [total |-> Len(fs), critical |-> countOf(fs, "critical"), high |-> countOf(fs, "high"),
   medium |-> countOf(fs, "medium"), low |-> countOf(fs, "low")]

\* what report() prints: the clean-scan line, or the four groups and the total
reportLines(fs) ==
  IF Len(fs) = 0 THEN <<[line |-> "No infinite loop patterns detected!"]>>
  ELSE <<[line |-> "Total issues", critical |-> countOf(fs, "critical"),
          high |-> countOf(fs, "high"), medium |-> countOf(fs, "medium"),
          low |-> countOf(fs, "low"), total |-> Len(fs)]>>

\* the document saveReport() writes
reportOf(fs) ==
  [written |-> TRUE, target |-> target, findings |-> fs, summary |-> summaryOf(fs)]

\* const files = await this.getSourceFiles()
GetSourceFiles ==
  /\ pc = "start"
  /\ files' = getSourceFiles(fsys)
  /\ idx' = 0
  /\ pc' = "scan"
  /\ UNCHANGED <<fsys, exists, output, findings, console, saved, error, returned,
                 calls, runs, exitCode>>
  /\ UNCHANGED fbVars
  /\ UNCHANGED srvVars

\* ScanFile with the set of unsubscribed event names kept from file to file
ScanFileSharedRemoved ==
  /\ pc = "scan"
  /\ idx < Len(files)
  /\ LET file == files[idx + 1]
         f == fileAt(fsys, file)
         kept(g) == g.type = "event-leak" =>
                      \A n \in 1..idx :
                        \A q \in {"\"", "'"} :
                          /\ ~includes(fileAt(fsys, files[n]).text,
                                       <<".", "o", "f", "f", "(", q>> \o g.description[2] \o <<q, ",">>)
                          /\ ~includes(fileAt(fsys, files[n]).text,
                                       <<".", "r", "e", "m", "o", "v", "e", "L", "i", "s", "t", "e", "n", "e", "r", "(", q>>
                                         \o g.description[2] \o <<q, ",">>)
     IN  IF ~f.readable
         THEN /\ pc' = "failed"
              /\ error' = "ReadError"
              /\ console' = Append(console, [line |-> "ReadError"])
              /\ exitCode' = 0
              /\ UNCHANGED <<findings, idx>>
         ELSE \E r \in {scanFile(f.text, relative(file))} :
                /\ findings' = findings \o SelectSeq(r.findings, kept)
                /\ IF r.threw
                   THEN /\ pc' = "failed"
                        /\ error' = "SyntaxError"
                        /\ console' = Append(console, [line |-> "SyntaxError"])
                        /\ exitCode' = 0
                        /\ UNCHANGED idx
                   ELSE /\ idx' = idx + 1
                        /\ UNCHANGED <<pc, error, console, exitCode>>
  /\ UNCHANGED <<fsys, exists, output, files, saved, returned, calls, runs>>
  /\ UNCHANGED fbVars
  /\ UNCHANGED srvVars

\* one iteration of for (const file of files): the read and the six
\* detectors.  An exception (of readFileSync, or of new RegExp in the
\* listener-leak detector) rejects detect(); main().catch(console.error)
\* prints it, and the process ends with status 0: the rejection is handled
\* and nothing sets process.exitCode.
ScanFile ==
  /\ pc = "scan"
  /\ idx < Len(files)
  /\ LET file == files[idx + 1]
         f == fileAt(fsys, file)
     IN  IF ~f.readable
         THEN /\ pc' = "failed"
              /\ error' = "ReadError"
              /\ console' = Append(console, [line |-> "ReadError"])
              /\ exitCode' = 0
              /\ UNCHANGED <<findings, idx>>
         ELSE \E r \in {scanFile(f.text, relative(file))} :
                /\ findings' = findings \o r.findings
                /\ IF r.threw
                   THEN /\ pc' = "failed"
                        /\ error' = "SyntaxError"
                        /\ console' = Append(console, [line |-> "SyntaxError"])
                        /\ exitCode' = 0
                        /\ UNCHANGED idx
                   ELSE /\ idx' = idx + 1
                        /\ UNCHANGED <<pc, error, console, exitCode>>
  /\ UNCHANGED <<fsys, exists, output, files, saved, returned, calls, runs>>
  /\ UNCHANGED fbVars
  /\ UNCHANGED srvVars

\* Report with saveReport() called whether or not an output path was given
ReportAlwaysSaves ==
  /\ pc = "scan"
  /\ idx = Len(files)
  /\ console' = console \o reportLines(findings) \o <<[line |-> "Report saved"]>>
  /\ saved' = reportOf(findings)
  /\ returned' = Append(returned, [findings |-> findings, call |-> calls])
  /\ pc' = "done"
  /\ exitCode' = 0
  /\ UNCHANGED <<fsys, exists, output, findings, files, idx, error, calls, runs>>
  /\ UNCHANGED fbVars
  /\ UNCHANGED srvVars

\* this.report(); if (this.output) this.saveReport(); return this.findings;
\* main() resolves and the process ends with status 0
Report ==
  /\ pc = "scan"
  /\ idx = Len(files)
  /\ console' = console \o reportLines(findings)
                 \o (IF output THEN <<[line |-> "Report saved"]>> ELSE <<>>)
  /\ saved' = IF output THEN reportOf(findings) ELSE saved
  /\ returned' = Append(returned, [findings |-> findings, call |-> calls])
  /\ pc' = "done"
  /\ exitCode' = 0
  /\ UNCHANGED <<fsys, exists, output, findings, files, idx, error, calls, runs>>
  /\ UNCHANGED fbVars
  /\ UNCHANGED srvVars

\* Main with the findings list held by the module, not set by the constructor
MainSharedFindings ==
  /\ pc \in {"done", "failed"}
  /\ runs < MaxRuns
  /\ runs' = runs + 1
  /\ exitCode' = 0 - 1
  /\ calls' = 1
  /\ pc' = "start"
  /\ files' = <<>>
  /\ idx' = 0
  /\ error' = "none"
  /\ UNCHANGED <<fsys, exists, output, findings, console, saved, returned>>
  /\ UNCHANGED fbVars
  /\ UNCHANGED srvVars

\* main() once more: new LoopDetector(options) and its detect()
Main ==
  /\ pc \in {"done", "failed"}
  /\ runs < MaxRuns
  /\ runs' = runs + 1
  /\ exitCode' = 0 - 1
  /\ findings' = <<>>
  /\ calls' = 1
  /\ pc' = "start"
  /\ files' = <<>>
  /\ idx' = 0
  /\ error' = "none"
  /\ UNCHANGED <<fsys, exists, output, console, saved, returned>>
  /\ UNCHANGED fbVars
  /\ UNCHANGED srvVars

\* a caller of the module calls detect() again on the same LoopDetector
DetectAgain ==
  /\ pc = "done"
  /\ runs < MaxRuns
  /\ runs' = runs + 1
  /\ exitCode' = 0 - 1
  /\ calls' = calls + 1
  /\ pc' = "start"
  /\ files' = <<>>
  /\ idx' = 0
  /\ UNCHANGED <<fsys, exists, output, findings, console, saved, error, returned>>
  /\ UNCHANGED fbVars
  /\ UNCHANGED srvVars

Next == GetSourceFiles \/ ScanFile \/ Report \/ Main \/ DetectAgain

-----------------------------------------------------------------------------
(* findBlockEnd step by step *)

fbState == [i |-> fbi, depth |-> depth, inString |-> inString,
            stringChar |-> stringChar, ret |-> fbRet]

\* one iteration of the for-loop
FBLoop ==
  /\ fbRet < 0
  /\ fbi < Len(content)
  /\ LET s == fbStep(content, fbState)
     IN  /\ fbi' = s.i
         /\ depth' = s.depth
         /\ inString' = s.inString
         /\ stringChar' = s.stringChar
         /\ fbRet' = s.ret
  /\ UNCHANGED <<content, startIndex>>
  /\ UNCHANGED scanVars
  /\ UNCHANGED srvVars

\* FBEnd returning the offset of the last character
FBEndLastOffset ==
  /\ fbRet < 0
  /\ fbi >= Len(content)
  /\ fbRet' = Len(content) - 1
  /\ UNCHANGED <<content, startIndex, fbi, depth, inString, stringChar>>
  /\ UNCHANGED scanVars
  /\ UNCHANGED srvVars

\* the loop ends at the end of the text: return content.length
FBEnd ==
  /\ fbRet < 0
  /\ fbi >= Len(content)
  /\ fbRet' = Len(content)
  /\ UNCHANGED <<content, startIndex, fbi, depth, inString, stringChar>>
  /\ UNCHANGED scanVars
  /\ UNCHANGED srvVars

NextBlock == FBLoop \/ FBEnd

-----------------------------------------------------------------------------
(* Initial states *)

\* the texts given to findBlockEnd alone: braces, the three quotes, the
\* backslash and one other character
BlockChars == {"{", "}", "\"", "'", Backtick, "\\", "x"}
BlockTexts == UNION {[1..n -> BlockChars] : n \in 0..MaxLen}

\* no file ./loop-report.json
NoFile == [exists |-> FALSE]

\* the server after start-up: const state = { scanning: false, ...,
\* spectrum: { ..., data: [] } }, no timer, no request
srvIdle ==
  /\ scanning = FALSE
  /\ timers = 0
  /\ spectrum = 0
  /\ reportFile = NoFile
  /\ requests = [r \in 1..MaxRequests |-> [phase |-> "none"]]

fbIdle ==
  /\ content = <<>>
  /\ startIndex = 0
  /\ fbi = 0
  /\ depth = 0
  /\ inString = FALSE
  /\ stringChar = "null"
  /\ fbRet = 0 - 1

\* the state after new LoopDetector(options), detect() called
scanStart ==
  /\ findings = <<>>
  /\ pc = "start"
  /\ files = <<>>
  /\ idx = 0
  /\ console = <<>>
  /\ saved = NoReport
  /\ error = "none"
  /\ returned = <<>>
  /\ calls = 1
  /\ runs = 1
  /\ exitCode = 0 - 1

InitBlock ==
  /\ content \in BlockTexts
  /\ startIndex \in 0..MaxStart
  /\ startIndex <= Len(content)
  /\ fbi = startIndex
  /\ depth = 0
  /\ inString = FALSE
  /\ stringChar = "null"
  /\ fbRet = 0 - 1
  /\ fsys = {}
  /\ exists = TRUE
  /\ output = FALSE
  /\ scanStart
  /\ srvIdle

SpecBlock == InitBlock /\ [][NextBlock]_vars

\* findBlockEnd is a synchronous loop: once called it runs to its return
SpecBlockFair == InitBlock /\ [][NextBlock]_vars /\ WF_vars(NextBlock)

\* a directory holding the one readable file a.js with text t
oneFile(t) == {[path |-> <<"a", ".", "j", "s">>, text |-> t, readable |-> TRUE]}

\* texts of n parts drawn from a sequence of parts
textsOf(parts, n) ==
  {Concat([k \in 1..n |-> parts[c[k]]]) : c \in [1..n -> 1..Len(parts)]}
textsUpTo(parts, n) == UNION {textsOf(parts, k) : k \in 0..n}

InitTexts(texts) ==
  /\ fsys \in {oneFile(t) : t \in texts}
  /\ exists = TRUE
  /\ output = FALSE
  /\ scanStart
  /\ srvIdle
  /\ fbIdle

\* one call of detect()
NextOnce == GetSourceFiles \/ ScanFile \/ Report

-----------------------------------------------------------------------------
(* Properties of findBlockEnd *)

\* the quote that is open after the first k characters of s, "null" if none
RECURSIVE openQuote(_, _)
openQuote(s, k) ==
  IF k = 0 THEN "null"
  ELSE LET q == openQuote(s, k - 1)
       IN  IF q = "null"
           THEN IF s[k] \in {"\"", "'", Backtick} THEN s[k] ELSE "null"
           ELSE IF s[k] = q /\ (k = 1 \/ s[k - 1] # "\\") THEN "null" ELSE q

\* the occurrences of brace b in s outside of quoted regions
bracesOutside(s, b) == {k \in 1..Len(s) : s[k] = b /\ openQuote(s, k - 1) = "null"}

\* s has as many opening as closing braces outside of quoted regions
Balanced(s) == Cardinality(bracesOutside(s, "{")) = Cardinality(bracesOutside(s, "}"))

\* C1: for a text with an opening brace at offset i, findBlockEnd(text, i)
\* returns an offset j > i such that text[i:j] has balanced braces when the
\* braces inside quoted regions are ignored, or j is the length of the text
\* because no prefix of text[i:] is balanced (no matching closing brace).
C1_BlockEndBalanced ==
  (fbRet >= 0 /\ CharAt(content, startIndex) = "{") =>
    /\ fbRet > startIndex
    /\ \/ Balanced(substring(content, startIndex, fbRet))
       \/ /\ fbRet = Len(content)
          /\ \A k \in (startIndex + 1)..Len(content) :
               ~Balanced(substring(content, startIndex, k))

\* a block whose closing brace follows a quoted closing brace
C1_Witness ==
  /\ startIndex = 0
  /\ content = <<"{", "'", "}", "'", "}">>
  /\ fbRet = 5

-----------------------------------------------------------------------------
(* The unconditional-loop detector on generated texts *)


LoopHeads == << <<"w", "h", "i", "l", "e", " ", "(", "t", "r", "u", "e", ")", " ">>, <<"w", "h", "i", "l", "e", "(", "1", ")", " ">>, <<"w", "h", "i", "l", "e", " ", "(", "!", "!", "t", "r", "u", "e", ")", " ">>, <<"f", "o", "r", " ", "(", ";", ";", ")", " ">>,
                <<"f", "o", "r", "(", ";", "t", "r", "u", "e", ";", ")", " ">>, <<"w", "h", "i", "l", "e", " ", "(", "x", ")", " ">> >>
\* the braces around the body: a block, a single statement, an unclosed block
LoopBraces == << << <<"{", " ">>, <<"}">> >>, << <<>>, <<>> >>, << <<"{", " ">>, <<>> >> >>
LoopStmts == << <<"x", "+", "+", ";", " ">>, <<"r", "e", "t", "u", "r", "n", " ", "1", ";", " ">>, <<"b", "r", "e", "a", "k", ";", " ">>, <<"r", "e", "t", "u", "r", "n", ";", " ">>,
                <<"i", "f", " ", "(", "x", ")", " ", "{", " ", "y", "(", ")", ";", " ", "}", " ">>, <<"s", " ", "=", " ", "'", "}", "'", ";", " ">>, <<"b", "r", "e", "a", "k", "f", "a", "s", "t", "(", ")", ";", " ">> >>
LoopTails == << <<>>, <<"\n", "w", "h", "i", "l", "e", "(", "1", ")", " ", "{", " ", "r", "e", "t", "u", "r", "n", " ", "1", ";", " ", "}">>, <<"\n", "f", "u", "n", "c", "t", "i", "o", "n", " ", "h", "(", ")", " ", "{", " ", "r", "e", "t", "u", "r", "n", " ", "1", ";", " ", "}">> >>

LoopTexts ==
  {h \o b[1] \o body \o b[2] \o tl :
     h \in Range(LoopHeads), b \in Range(LoopBraces),
     body \in textsUpTo(LoopStmts, MaxStmts), tl \in Range(LoopTails)}

InitLoop == InitTexts(LoopTexts)
SpecLoop == InitLoop /\ [][NextOnce]_vars

\* the text of the one file of the directory
theText == (CHOOSE f \in fsys : TRUE).text

\* the spellings of the unconditional loop headers in the generated texts
LoopHeaderSpellings ==
  { <<"w", "h", "i", "l", "e", " ", "(", "t", "r", "u", "e", ")">>, <<"w", "h", "i", "l", "e", "(", "1", ")">>, <<"w", "h", "i", "l", "e", " ", "(", "!", "!", "t", "r", "u", "e", ")">>, <<"f", "o", "r", " ", "(", ";", ";", ")">>, <<"f", "o", "r", "(", ";", "t", "r", "u", "e", ";", ")">> }
HeaderOffsets(t) ==
  {p \in 0..(Len(t) - 1) : \E h \in LoopHeaderSpellings : StartsAt(t, h, p)}
LineAt(t, p) == Newlines(SubSeq(t, 1, p)) + 1

\* the block resolved for the header at offset p
ResolvedBlock(t, p) == substring(t, p, findBlockEnd(t, p))
\* the block has neither a break nor a return
NoExitWord(b) == ~includes(b, <<"b", "r", "e", "a", "k">>) /\ ~includes(b, <<"r", "e", "t", "u", "r", "n">>)
\* the block has a return of a value
ReturnsValue(b) == includes(b, <<"r", "e", "t", "u", "r", "n", " ", "1", ";">>)

criticalAt(line) ==
  Len(SelectSeq(findings, LAMBDA f : f.severity = "critical" /\ f.line = line))

\* C2: every unconditional loop header whose resolved block has neither a
\* break nor a return yields exactly one critical finding, and a header whose
\* resolved block has a return of a value yields none: on every line, the
\* critical findings number at least the headers of the first kind and at
\* most the headers that are not of the second kind.
C2_LoopFindings ==
  pc = "done" =>
    LET t == theText
        H == HeaderOffsets(t)
    IN  \A line \in {LineAt(t, p) : p \in H} :
          LET HL == {p \in H : LineAt(t, p) = line}
              N == {p \in HL : NoExitWord(ResolvedBlock(t, p))}
              V == {p \in HL : ReturnsValue(ResolvedBlock(t, p))}
          IN  /\ Cardinality(N) <= criticalAt(line)
              /\ criticalAt(line) <= Cardinality(HL) - Cardinality(V)

\* a loop without exit is reported, the loop after it that returns a value is not
C2_Witness ==
  /\ pc = "done"
  /\ theText = <<"w", "h", "i", "l", "e", " ", "(", "t", "r", "u", "e", ")", " ", "{", " ", "x", "+", "+", ";", " ", "}", "\n", "w", "h", "i", "l", "e", "(", "1", ")", " ", "{", " ", "r", "e", "t", "u", "r", "n", " ", "1", ";", " ", "}">>
  /\ criticalAt(1) = 1
  /\ criticalAt(2) = 0

-----------------------------------------------------------------------------
(* The unbounded-recursion detector on generated texts *)

RecHeads == << <<"f", "u", "n", "c", "t", "i", "o", "n", " ", "f", "(", "n", ")", " ", "{", " ">>, <<"f", "u", "n", "c", "t", "i", "o", "n", " ", "g", "(", "n", ")", " ", "{", " ">>, <<"a", "s", "y", "n", "c", " ", "f", "u", "n", "c", "t", "i", "o", "n", " ", "g", "(", "n", ")", " ", "{", " ">> >>
RecStmts == << <<"i", "f", " ", "(", "n", " ", "<", "=", " ", "0", ")", " ", "r", "e", "t", "u", "r", "n", " ", "0", ";", " ">>, <<"r", "e", "t", "u", "r", "n", " ", "f", "(", "n", "-", "1", ")", ";", " ">>, <<"r", "e", "t", "u", "r", "n", " ", "g", "(", "n", "+", "1", ")", ";", " ">>,
               <<"x", "+", "+", ";", " ">>, <<"i", "f", " ", "(", "n", ")", " ", "{", " ", "r", "e", "t", "u", "r", "n", " ", "1", ";", " ", "}", " ">>, <<"r", "e", "t", "u", "r", "n", " ", "h", "(", "n", ")", ";", " ">>, <<"f", "(", "n", ")", ";", " ">> >>
RecTails == << <<>>, <<"\n", "f", "u", "n", "c", "t", "i", "o", "n", " ", "f", "(", "n", ")", " ", "{", " ", "i", "f", " ", "(", "n", " ", "<", "=", " ", "0", ")", " ", "r", "e", "t", "u", "r", "n", " ", "0", ";", " ", "r", "e", "t", "u", "r", "n", " ", "f", "(", "n", "-", "1", ")", ";", " ", "}">> >>

RecTexts ==
  {h \o body \o <<"}">> \o tl :
     h \in Range(RecHeads), body \in textsUpTo(RecStmts, MaxStmts), tl \in Range(RecTails)}

InitRec == InitTexts(RecTexts)
SpecRec == InitRec /\ [][NextOnce]_vars

\* the offsets of the function keyword of the declarations, and their names
FuncOffsets(t) == {p \in 0..(Len(t) - 1) : StartsAt(t, <<"f", "u", "n", "c", "t", "i", "o", "n", " ">>, p)}
FuncName(t, p) == SubSeq(t, p + 10, RunEnd(t, ClsWord, p + 9))

ReturnOffsets(b) == {q \in 0..(Len(b) - 1) : StartsAt(b, <<"r", "e", "t", "u", "r", "n">>, q)}
\* the block has a return, and each return is followed at once by a call of nm
OnlySelfReturns(b, nm) ==
  /\ ReturnOffsets(b) # {}
  /\ \A q \in ReturnOffsets(b) : StartsAt(b, <<" ">> \o nm \o <<"(">>, q + 6)
\* the block calls nm after its header
SelfCalling(b, nm) == \E q \in 10..(Len(b) - 1) : StartsAt(b, nm \o <<"(">>, q)
\* the spellings of a guarded return of a value that is no call
GuardedReturns == { <<"i", "f", " ", "(", "n", " ", "<", "=", " ", "0", ")", " ", "r", "e", "t", "u", "r", "n", " ", "0", ";">>, <<"i", "f", " ", "(", "n", ")", " ", "{", " ", "r", "e", "t", "u", "r", "n", " ", "1", ";", " ", "}">> }
ConditionalReturn(b) == \E s \in GuardedReturns : includes(b, s)

recursionAt(line) ==
  Len(SelectSeq(findings, LAMBDA f : /\ f.type = "unbounded-recursion"
                                     /\ f.severity = "high"
                                     /\ f.line = line))

-----------------------------------------------------------------------------
(* The dangling-promise detector on generated texts *)

PromiseParts == << <<"P", "r", "o", "m", "i", "s", "e", ".", "a", "l", "l", "(", "[", "]", ")", ";", " ">>, <<"P", "r", "o", "m", "i", "s", "e", ".", "a", "l", "l", "(", " ", "[", " ", "]", " ", ")", ";", "\n">>, <<"P", "r", "o", "m", "i", "s", "e", ".", "a", "l", "l", "(", "[", "p", "]", ")", ";", " ">>,
                   <<"P", "r", "o", "m", "i", "s", "e", ".", "a", "l", "l", "S", "e", "t", "t", "l", "e", "d", "(", "[", "]", ")", ";", " ">>, <<"a", "w", "a", "i", "t", " ", "n", "e", "w", " ", "P", "r", "o", "m", "i", "s", "e", "(", "(", ")", " ", "=", ">", " ", "{", "}", ")", ";", " ">>,
                   <<"x", " ", "=", " ", "[", "]", ";", "\n">> >>
PromiseTexts == textsUpTo(PromiseParts, MaxParts)

InitPromise == InitTexts(PromiseTexts)
SpecPromise == InitPromise /\ [][NextOnce]_vars

\* the spellings of Promise.all([]) in the generated texts
EmptyAllSpellings == { <<"P", "r", "o", "m", "i", "s", "e", ".", "a", "l", "l", "(", "[", "]", ")">>, <<"P", "r", "o", "m", "i", "s", "e", ".", "a", "l", "l", "(", " ", "[", " ", "]", " ", ")">> }
EmptyAllOffsets(t) ==
  {p \in 0..(Len(t) - 1) : \E s \in EmptyAllSpellings : StartsAt(t, s, p)}

emptyAllFindings ==
  SelectSeq(findings, LAMBDA f : f.type = "empty-promise-all" /\ f.severity = "high")

\* C4: the high findings of the empty-combinator kind are as many as the
\* occurrences of Promise.all([]) in the text, one per occurrence and none
\* dropped as a duplicate.
C4_EmptyAllCount ==
  pc = "done" => Len(emptyAllFindings) = Cardinality(EmptyAllOffsets(theText))

\* two occurrences on one line and a third on the next: three findings
C4_Witness ==
  /\ pc = "done"
  /\ theText = <<"P", "r", "o", "m", "i", "s", "e", ".", "a", "l", "l", "(", "[", "]", ")", ";", " ", "P", "r", "o", "m", "i", "s", "e", ".", "a", "l", "l", "(", "[", "]", ")", ";", " ", "P", "r", "o", "m", "i", "s", "e", ".", "a", "l", "l", "(", " ", "[", " ", "]", " ", ")", ";", "\n">>
  /\ Len(emptyAllFindings) = 3
  /\ emptyAllFindings[1] = emptyAllFindings[2]

-----------------------------------------------------------------------------
(* The listener-leak detector on generated texts *)

EventParts == << <<"e", ".", "o", "n", "(", "\"", "d", "a", "t", "a", "\"", ",", " ", "c", "b", ")", ";", " ">>, <<"e", ".", "o", "n", "(", "'", "d", "a", "t", "a", "'", ",", " ", "c", "b", "2", ")", ";", "\n">>, <<"e", ".", "o", "f", "f", "(", "\"", "d", "a", "t", "a", "\"", ",", " ", "c", "b", ")", ";", " ">>,
                 <<"e", ".", "o", "n", "(", "\"", "e", "n", "d", "\"", ",", " ", "h", ")", ";", " ">>, <<"e", ".", "r", "e", "m", "o", "v", "e", "L", "i", "s", "t", "e", "n", "e", "r", "(", "\"", "e", "n", "d", "\"", ",", " ", "h", ")", ";", "\n">>,
                 <<"e", ".", "o", "n", "(", "\"", "a", "+", "\"", ",", " ", "c", "b", ")", ";", " ">>, <<"e", ".", "o", "n", "(", "\"", "a", "(", "\"", ",", " ", "c", "b", ")", ";", " ">>, <<"e", ".", "o", "n", "c", "e", "(", "\"", "d", "a", "t", "a", "\"", ",", " ", "c", "b", ")", ";", " ">> >>
EventTexts == textsUpTo(EventParts, MaxParts)

InitEvent == InitTexts(EventTexts)
SpecEvent == InitEvent /\ [][NextOnce]_vars

EventNames == { <<"d", "a", "t", "a">>, <<"e", "n", "d">>, <<"a", "+">>, <<"a", "(">> }

\* the text has a subscribe call .on("name", ...) / an unsubscribe call
\* .off("name", ...) or .removeListener("name", ...), with either quote
SubscribedTo(t, name) ==
  \E q \in QuoteChars : includes(t, <<".", "o", "n", "(">> \o <<q>> \o name \o <<q, ",">>)
UnsubscribedFrom(t, name) ==
  \E q \in QuoteChars :
    \/ includes(t, <<".", "o", "f", "f", "(">> \o <<q>> \o name \o <<q, ",">>)
    \/ includes(t, <<".", "r", "e", "m", "o", "v", "e", "L", "i", "s", "t", "e", "n", "e", "r", "(">> \o <<q>> \o name \o <<q, ",">>)

leaksOf(name) ==
  Len(SelectSeq(findings, LAMBDA f : /\ f.type = "event-leak"
                                     /\ f.severity = "low"
                                     /\ f.description[2] = name))

ListenerLeaksFor(names) ==
  pc \in {"done", "failed"} =>
    \A name \in names :
      /\ (SubscribedTo(theText, name) /\ ~UnsubscribedFrom(theText, name)) =>
           leaksOf(name) = 1
      /\ UnsubscribedFrom(theText, name) => leaksOf(name) = 0

\* C5: for every event name, a file that subscribes to it and never
\* unsubscribes from it yields exactly one low finding for it, however often
\* it subscribes, and a file that unsubscribes from it yields none.
C5_ListenerLeaks == ListenerLeaksFor(EventNames)

\* C8: no detector throws, whatever the text and the quoted event names.
C8_DetectorsNeverThrow == error # "SyntaxError"

-----------------------------------------------------------------------------
(* The scan of a directory *)

PathCatalog == << <<"a", ".", "t", "s">>, <<"b", ".", "j", "s">>, <<"c", ".", "j", "s", "x">>, <<"d", ".", "t", "s", "x">>, <<"l", "i", "b", "/", "e", ".", "j", "s">>,
                  <<"n", "o", "d", "e", "_", "m", "o", "d", "u", "l", "e", "s", "/", "m", ".", "j", "s">> >>

\* a file with a loop and an empty Promise.all, a file with a blocking loop
\* and a listener, a file whose event name is no regex source, a file with a
\* recursion, a for-loop and a promise that never settles
CatalogTexts == { <<"w", "h", "i", "l", "e", " ", "(", "t", "r", "u", "e", ")", " ", "{", " ", "x", "+", "+", ";", " ", "}", "\n", "P", "r", "o", "m", "i", "s", "e", ".", "a", "l", "l", "(", "[", "]", ")", ";">>,
                  <<"w", "h", "i", "l", "e", " ", "(", "x", ")", " ", "{", " ", "f", "e", "t", "c", "h", "(", "u", ")", ";", " ", "}", "\n", "e", ".", "o", "n", "(", "\"", "d", "a", "t", "a", "\"", ",", " ", "c", "b", ")", ";">>,
                  <<"e", ".", "o", "n", "(", "\"", "a", "(", "\"", ",", " ", "c", "b", ")", ";">>,
                  <<"f", "u", "n", "c", "t", "i", "o", "n", " ", "g", "(", "n", ")", " ", "{", " ", "r", "e", "t", "u", "r", "n", " ", "g", "(", "n", "+", "1", ")", ";", " ", "}", "\n", "f", "o", "r", " ", "(", ";", ";", ")", " ", "{", " ", "x", "+", "+", ";", " ", "}", "\n", "a", "w", "a", "i", "t", " ", "n", "e", "w", " ", "P", "r", "o", "m", "i", "s", "e", "(", "(", ")", " ", "=", ">", " ", "1", ")", ";">> }

\* what a path of the directory can hold: a readable text, or something
\* readFileSync fails on
FileKinds == {[text |-> t, readable |-> TRUE] : t \in CatalogTexts}
             \cup {[text |-> <<>>, readable |-> FALSE]}

Dirs ==
  UNION {{ {[path |-> p, text |-> k[p].text, readable |-> k[p].readable] : p \in ps} :
             k \in [ps -> FileKinds] } :
           ps \in {q \in SUBSET Range(PathCatalog) : Cardinality(q) <= MaxFiles}}

\* the state after new LoopDetector(options), detect() called: a missing
\* target directory holds no file
Init ==
  /\ exists \in BOOLEAN
  /\ fsys \in (IF exists THEN Dirs ELSE {{}})
  /\ output \in BOOLEAN
  /\ scanStart
  /\ srvIdle
  /\ fbIdle

Spec == Init /\ [][Next]_vars

-----------------------------------------------------------------------------
(* Properties of the report *)

CleanLine == "No infinite loop patterns detected!"

Severities == {"critical", "high", "medium", "low"}

ZeroSummary == [total |-> 0, critical |-> 0, high |-> 0, medium |-> 0, low |-> 0]

\* C6: the four severity counts of a saved summary, and of a printed report,
\* count every finding once: they sum to the number of findings, which is the
\* total; a scan that collects no file does not fail, prints the clean-scan
\* line and saves, if asked to save, a summary of zeros.
C6_SummaryPartition ==
  /\ saved.written =>
       /\ \A n \in 1..Len(saved.findings) : saved.findings[n].severity \in Severities
       /\ saved.summary.critical + saved.summary.high + saved.summary.medium
            + saved.summary.low = Len(saved.findings)
       /\ saved.summary.total = Len(saved.findings)
  /\ \A k \in 1..Len(console) :
       console[k].line = "Total issues" =>
         console[k].critical + console[k].high + console[k].medium + console[k].low
           = console[k].total
  /\ (pc \in {"scan", "done", "failed"} /\ files = <<>>) =>
       /\ pc # "failed"
       /\ error = "none"
  /\ (pc = "done" /\ files = <<>>) =>
       /\ \E k \in 1..Len(console) : console[k].line = CleanLine
       /\ output => saved.written /\ saved.summary = ZeroSummary

C6_Witness ==
  /\ pc = "done"
  /\ saved.written
  /\ saved.summary.critical >= 1
  /\ saved.summary.high >= 1
  /\ saved.summary.medium >= 1
  /\ saved.summary.low >= 1

-----------------------------------------------------------------------------
(* Properties of repeated runs *)

\* the findings the LoopDetector held when its k-th completed detect() began
heldBefore(k) == IF returned[k].call = 1 THEN <<>> ELSE returned[k - 1].findings

\* the findings the k-th completed detect() pushed
pushedBy(k) ==
  SubSeq(returned[k].findings, Len(heldBefore(k)) + 1, Len(returned[k].findings))

-----------------------------------------------------------------------------
(* Properties of the source collector *)

\* the files of the directory that the collector is to return
matching(dir) ==
  {target \o <<"/">> \o f.path :
     f \in {g \in dir : /\ \E n \in 1..Len(extensions) : endsWith(g.path, <<".">> \o extensions[n])
                        /\ ~includes(g.path, <<"n", "o", "d", "e", "_", "m", "o", "d", "u", "l", "e", "s">>)}}

\* the place of a file's extension in js, ts, jsx, tsx
extRank(f) == CHOOSE n \in 1..Len(extensions) : endsWith(f, <<".">> \o extensions[n])

collected == pc \in {"scan", "done", "failed"}

C10_MissingTargetFails ==
  ~exists =>
    /\ pc \in {"start", "failed"}
    /\ pc = "failed" => error = "NotFoundError"
    /\ findings = <<>>
    /\ ~saved.written
    /\ \A k \in 1..Len(console) : console[k].line # CleanLine

-----------------------------------------------------------------------------
(* Properties of the scan of a directory *)

\* C11: a file that cannot be read is skipped and the scan goes on to the
\* other files and to the report: no run is stopped by a read failure.
C11_ReadFailureSkipped == pc = "failed" => error # "ReadError"

\* the place of a finding's file in collector order
fileRank(f) == CHOOSE n \in 1..Len(files) : relative(files[n]) = f.file

\* the place of a finding's detector in the detector order
detectorRank(f) ==
  CASE f.type \in {"infinite-while", "infinite-for"} -> 1
    [] f.type = "unbounded-recursion" -> 2
    [] f.type = "blocking-loop" -> 3
    [] f.type \in {"empty-promise-all", "unresolved-promise"} -> 4
    [] f.type = "event-leak" -> 5

Ordered(fs) ==
  \A i, j \in 1..Len(fs) :
    i < j => \/ fileRank(fs[i]) < fileRank(fs[j])
             \/ /\ fileRank(fs[i]) = fileRank(fs[j])
                /\ detectorRank(fs[i]) <= detectorRank(fs[j])

\* C12: in the findings a scan pushes, the findings of a file earlier in
\* collector order precede those of a later file, and the findings of one
\* file are in detector order: unconditional-loop, unbounded-recursion,
\* blocking-construct, dangling-promise, listener-leak.
C12_FindingsInOrder ==
  /\ (calls = 1 /\ pc \in {"scan", "done", "failed"}) => Ordered(findings)
  /\ pc = "done" => Ordered(pushedBy(Len(returned)))

C12_Witness ==
  /\ pc = "done"
  /\ calls = 1
  /\ Len(files) = 2
  /\ Len(findings) >= 4
  /\ fileRank(findings[1]) = 1
  /\ fileRank(findings[2]) = 1
  /\ detectorRank(findings[1]) < detectorRank(findings[2])
  /\ fileRank(findings[Len(findings)]) = 2

\* C13: the command line run ends with a non-zero exit status when the scan
\* found loops and with status zero when the scan is clean.
C13_ExitStatusTellsFindings ==
  pc = "done" => ((exitCode # 0) <=> (Len(findings) > 0))

\* C14: a report document is written if and only if an output path was
\* given: none is ever written without one, and a scan that completes with
\* one has written a document whose findings are this.findings, in order and
\* in full, and whose target is the scanned directory.
C14_ReportWrittenIffOutput ==
  /\ saved.written => output
  /\ ~output => saved = NoReport
  /\ (pc = "done" /\ output) =>
       /\ saved.written
       /\ saved.findings = findings
       /\ saved.target = target

C14_Witness ==
  /\ pc = "done"
  /\ output
  /\ saved.written
  /\ Len(saved.findings) >= 2
  /\ \E n \in 1..Len(saved.findings) : Len(saved.findings[n].code) > 0

-----------------------------------------------------------------------------
(* Properties of the findings *)

\* the severity of the detector of a finding type
SeverityOf(type) ==
  CASE type \in {"infinite-while", "infinite-for"} -> "critical"
    [] type \in {"unbounded-recursion", "empty-promise-all", "unresolved-promise"} -> "high"
    [] type = "blocking-loop" -> "medium"
    [] type = "event-leak" -> "low"
    [] OTHER -> "none"

typesFound == {findings[n].type : n \in 1..Len(findings)}

textOf(f) ==
  (CHOOSE g \in fsys : relative(target \o <<"/">> \o g.path) = f.file).text

\* the first characters of the construct a finding of this type starts with
StartWords(type) ==
  CASE type = "infinite-while" -> { <<"w", "h", "i", "l", "e">> }
    [] type = "infinite-for" -> { <<"f", "o", "r">> }
    [] type = "blocking-loop" -> { <<"w", "h", "i", "l", "e">>, <<"f", "o", "r">> }
    [] type = "unbounded-recursion" -> { <<"f", "u", "n", "c", "t", "i", "o", "n">>, <<"a", "s", "y", "n", "c">> }
    [] type = "empty-promise-all" -> { <<"P", "r", "o", "m", "i", "s", "e", ".", "a", "l", "l">> }
    [] type = "unresolved-promise" -> { <<"a", "w", "a", "i", "t">> }
    [] type = "event-leak" -> { <<".", "o", "n">> }

\* C16: the line of every finding is one plus the number of newline
\* characters of its file's text before an offset where a construct of its
\* type starts, and so lies between 1 and the number of lines of the file.
C16_LineOfMatch ==
  \A n \in 1..Len(findings) :
    LET f == findings[n]
        T == textOf(f)
    IN  /\ 1 <= f.line
        /\ f.line <= Cardinality({k \in 1..Len(T) : T[k] = "\n"}) + 1
        /\ \E p \in 0..(Len(T) - 1) :
             /\ \E w \in StartWords(f.type) : StartsAt(T, w, p)
             /\ f.line = Cardinality({k \in 1..p : T[k] = "\n"}) + 1

C16_Witness ==
  /\ pc = "done"
  /\ \E n \in 1..Len(findings) : findings[n].line = 3
  /\ \E n \in 1..Len(findings) : findings[n].line = 1

-----------------------------------------------------------------------------
(* Properties of the steps of findBlockEnd *)

\* C17: a step of findBlockEnd taken inside a region opened by the quote
\* stringChar leaves the depth as it is, whatever the character (a brace
\* too); it closes the region if the character is that quote and the
\* character before it is not a backslash, and otherwise leaves the region
\* open with the same quote (the other two quotes neither close it nor open
\* another).
C17_QuotedRegion ==
  [][(inString /\ fbRet < 0 /\ fbi < Len(content)) =>
       /\ depth' = depth
       /\ IF content[fbi + 1] = stringChar /\ CharAt(content, fbi - 1) # "\\"
          THEN ~inString'
          ELSE inString' /\ stringChar' = stringChar]_vars

\* inside '...' the scan has passed a closing brace and a double quote
C17_Witness ==
  /\ startIndex = 0
  /\ content = <<"{", "'", "}", "\"", "'">>
  /\ fbi = 4
  /\ inString
  /\ stringChar = "'"
  /\ depth = 1

\* the text findBlockEnd scans
scanned == SubSeq(content, startIndex + 1, Len(content))

\* the k-th scanned character is a closing brace outside of quoted regions
\* that brings the depth back to zero
ClosesAt(k) ==
  /\ scanned[k] = "}"
  /\ openQuote(scanned, k - 1) = "null"
  /\ Balanced(SubSeq(scanned, 1, k))

\* C18: findBlockEnd terminates for every text and start offset with an
\* offset of the text, and when the end of the text is reached before the
\* depth returns to zero (no closing brace, or a string left open) that
\* offset is the length of the text.
C18_NeverFails ==
  /\ [](fbRet >= 0 =>
          /\ startIndex <= fbRet /\ fbRet <= Len(content)
          /\ (\A k \in 1..Len(scanned) : ~ClosesAt(k)) => fbRet = Len(content))
  /\ <>(fbRet >= 0)

\* a string left open hides the closing braces: the end of the text is returned
C18_Witness ==
  /\ startIndex = 0
  /\ content = <<"{", "'", "}", "}">>
  /\ inString
  /\ fbRet = 4

-----------------------------------------------------------------------------
(* The exit keywords of a loop block *)

\* the word w stands in b as a word of its own
hasKeyword(b, w) ==
  \E p \in 0..(Len(b) - Len(w)) :
    /\ StartsAt(b, w, p)
    /\ CharAt(b, p - 1) \notin WordChars
    /\ CharAt(b, p + Len(w)) \notin WordChars

\* the block has neither the keyword break nor the keyword return
NoExitKeyword(b) == ~hasKeyword(b, <<"b", "r", "e", "a", "k">>) /\ ~hasKeyword(b, <<"r", "e", "t", "u", "r", "n">>)

\* C19: an unconditional loop is flagged critical if and only if its block
\* has neither the keyword break nor the keyword return, in any form: on
\* every line, the critical findings number exactly the loop headers whose
\* resolved block has neither keyword.
C19_FlaggedIffNoExitKeyword ==
  pc = "done" =>
    LET t == theText
        H == HeaderOffsets(t)
    IN  \A line \in {LineAt(t, p) : p \in H} :
          criticalAt(line) =
            Cardinality({p \in H : LineAt(t, p) = line /\ NoExitKeyword(ResolvedBlock(t, p))})

-----------------------------------------------------------------------------
(* The unconditional-loop detector on loops with nested blocks *)

NestHeads == << <<"w", "h", "i", "l", "e", " ", "(", "t", "r", "u", "e", ")", " ">>, <<"f", "o", "r", " ", "(", ";", ";", ")", " ">> >>
NestStmts == << <<"x", "+", "+", ";", " ">>, <<"b", "r", "e", "a", "k", ";", " ">>, <<"i", "f", " ", "(", "x", ")", " ", "{", " ", "b", "r", "e", "a", "k", ";", " ", "}", " ">>, <<"i", "f", " ", "(", "x", ")", " ", "{", " ", "r", "e", "t", "u", "r", "n", " ", "1", ";", " ", "}", " ">>,
                <<"f", "o", "r", " ", "(", ";", ";", ")", " ", "{", " ", "b", "r", "e", "a", "k", ";", " ", "}", " ">>, <<"f", "u", "n", "c", "t", "i", "o", "n", " ", "h", "(", ")", " ", "{", " ", "r", "e", "t", "u", "r", "n", " ", "1", ";", " ", "}", " ">> >>

NestTexts ==
  {h \o <<"{", " ">> \o body \o <<"}">> : h \in Range(NestHeads), body \in textsUpTo(NestStmts, MaxStmts)}

InitNest == InitTexts(NestTexts)
SpecNest == InitNest /\ [][NextOnce]_vars

\* the number of blocks of b that are open before its k-th character
nesting(b, k) ==
  Cardinality({j \in bracesOutside(b, "{") : j < k}) - Cardinality({j \in bracesOutside(b, "}") : j < k})

\* the block's own text: the text inside of its nested blocks blanked out
ownText(b) == [k \in 1..Len(b) |-> IF nesting(b, k) <= 1 THEN b[k] ELSE " "]

\* C20: a break or return that occurs only inside a block nested in the loop
\* body does not count as an exit: on every line, the critical findings
\* number at least the loop headers whose block has neither keyword in its
\* own text.
C20_OwnTextOnly ==
  pc = "done" =>
    LET t == theText
        H == HeaderOffsets(t)
    IN  \A line \in {LineAt(t, p) : p \in H} :
          criticalAt(line) >=
            Cardinality({p \in H : LineAt(t, p) = line /\ NoExitKeyword(ownText(ResolvedBlock(t, p)))})

-----------------------------------------------------------------------------
(* Which functions the unbounded-recursion detector takes for recursive *)

\* the unbounded-recursion findings for the function nm declared on a line
recursionOf(line, nm) ==
  Len(SelectSeq(findings, LAMBDA f : /\ f.type = "unbounded-recursion"
                                     /\ f.line = line
                                     /\ f.description[2] = nm))

\* C21: a named function whose body has no call to itself never yields an
\* unbounded-recursion finding, whatever else its body contains.
C21_NoSelfCallNoFinding ==
  pc = "done" =>
    LET t == theText
    IN  \A p \in FuncOffsets(t) :
          ~SelfCalling(ResolvedBlock(t, p), FuncName(t, p)) =>
            recursionOf(LineAt(t, p), FuncName(t, p)) = 0

\* the block has a return that is not followed at once by a call of nm
OtherReturn(b, nm) ==
  \E q \in ReturnOffsets(b) : ~StartsAt(b, <<" ">> \o nm \o <<"(">>, q + 6)

\* C22: a function that calls itself and whose block has a return statement
\* not immediately followed by a call to the same function (a return of a
\* call to a different function too) yields no unbounded-recursion finding.
C22_OtherReturnIsBaseCase ==
  pc = "done" =>
    LET t == theText
    IN  \A p \in FuncOffsets(t) :
          (/\ SelfCalling(ResolvedBlock(t, p), FuncName(t, p))
           /\ OtherReturn(ResolvedBlock(t, p), FuncName(t, p))) =>
            recursionOf(LineAt(t, p), FuncName(t, p)) = 0

-----------------------------------------------------------------------------
(* The blocking-construct detector on loops with and without await *)

AsyncHeads == << <<"w", "h", "i", "l", "e", " ", "(", "x", ")", " ">>, <<"f", "o", "r", " ", "(", "i", " ", "o", "f", " ", "a", ")", " ">> >>
AsyncStmts == << <<"x", "+", "+", ";", " ">>, <<"f", "e", "t", "c", "h", "(", "u", ")", ";", " ">>, <<"a", "w", "a", "i", "t", " ", "f", "e", "t", "c", "h", "(", "u", ")", ";", " ">>, <<"a", "w", "a", "i", "t", " ", "z", ";", " ">>,
                 <<"i", "f", " ", "(", "y", ")", " ", "{", " ", "q", "u", "e", "r", "y", "(", "q", ")", ";", " ", "}", " ">> >>

AsyncTexts ==
  {h \o <<"{", " ">> \o body \o <<"}">> : h \in Range(AsyncHeads), body \in textsUpTo(AsyncStmts, MaxStmts)}

InitAsync == InitTexts(AsyncTexts)
SpecAsync == InitAsync /\ [][NextOnce]_vars

\* the names the detector takes for input or output calls
IONames == {<<"f", "e", "t", "c", "h">>, <<"r", "e", "a", "d", "F", "i", "l", "e">>, <<"q", "u", "e", "r", "y">>, <<"r", "e", "q", "u", "e", "s", "t">>}
\* the block mentions a call of one of them
MentionsIO(b) == \E nm \in IONames : includes(b, nm \o <<"(">>)

blockingAt(line) ==
  Len(SelectSeq(findings, LAMBDA f : /\ f.type = "blocking-loop"
                                     /\ f.severity = "medium"
                                     /\ f.line = line))

\* C23: a while(...) or for(...) loop yields a medium blocking-loop finding
\* if and only if its block, up to its matching closing brace, mentions a
\* call of an I/O-suggestive name and does not contain await (the generated
\* texts hold one loop, at offset 0).
C23_BlockingIffIOWithoutAwait ==
  pc = "done" =>
    blockingAt(1) = IF /\ MentionsIO(ResolvedBlock(theText, 0))
                       /\ ~includes(ResolvedBlock(theText, 0), <<"a", "w", "a", "i", "t">>)
                    THEN 1 ELSE 0

-----------------------------------------------------------------------------
(* The dangling-promise detector on Promise constructors *)

CtorParts == << <<"a", "w", "a", "i", "t", " ", "n", "e", "w", " ", "P", "r", "o", "m", "i", "s", "e", "(", "(", ")", " ", "=", ">", " ", "{", "}", ")", ";", " ">>, <<"r", "e", "t", "u", "r", "n", " ", "n", "e", "w", " ", "P", "r", "o", "m", "i", "s", "e", "(", "(", ")", " ", "=", ">", " ", "{", "}", ")", ";", " ">>,
                <<"p", " ", "=", " ", "n", "e", "w", " ", "P", "r", "o", "m", "i", "s", "e", "(", "(", ")", " ", "=", ">", " ", "1", ")", ";", "\n">>, <<"n", "e", "w", " ", "P", "r", "o", "m", "i", "s", "e", "(", "(", "r", ")", " ", "=", ">", " ", "r", "(", ")", ")", ";", " ">>, <<"x", " ", "=", " ", "1", ";", " ">> >>
CtorTexts == textsUpTo(CtorParts, MaxParts)

InitCtor == InitTexts(CtorTexts)
SpecCtor == InitCtor /\ [][NextOnce]_vars

\* the constructors invoked with a callback that takes no parameters
NoParamCtorOffsets(t) ==
  {p \in 0..(Len(t) - 1) : StartsAt(t, <<"n", "e", "w", " ", "P", "r", "o", "m", "i", "s", "e", "(", "(", ")", " ", "=", ">">>, p)}

unresolvedFindings ==
  SelectSeq(findings, LAMBDA f : f.type = "unresolved-promise" /\ f.severity = "high")

\* C24: the high findings of a promise that never resolves are as many as
\* the occurrences of new Promise(() => ...) in the text, one per occurrence,
\* whatever precedes the constructor.
C24_EveryNoParamCtor ==
  pc = "done" => Len(unresolvedFindings) = Cardinality(NoParamCtorOffsets(theText))

-----------------------------------------------------------------------------
(* The collector on directories with names around the ignore-list entry *)

IgnorePaths == << <<"a", ".", "j", "s">>, <<"n", "o", "d", "e", "_", "m", "o", "d", "u", "l", "e", "s", "/", "m", ".", "j", "s">>, <<"n", "o", "d", "e", "_", "m", "o", "d", "u", "l", "e", "s", "_", "o", "l", "d", "/", "b", ".", "j", "s">>,
                  <<"l", "i", "b", "/", "n", "o", "d", "e", "_", "m", "o", "d", "u", "l", "e", "s", ".", "t", "s">>, <<"m", "y", "_", "n", "o", "d", "e", "_", "m", "o", "d", "u", "l", "e", "s", "/", "c", ".", "j", "s", "x">>, <<"n", "o", "t", "e", "s", ".", "t", "x", "t">> >>
IgnoreTexts == { <<"x", " ", "=", " ", "1", ";">>, <<"w", "h", "i", "l", "e", " ", "(", "t", "r", "u", "e", ")", " ", "{", " ", "x", "+", "+", ";", " ", "}">> }

IgnoreDirs ==
  UNION {{ {[path |-> p, text |-> k[p], readable |-> TRUE] : p \in ps} : k \in [ps -> IgnoreTexts] } :
           ps \in {q \in SUBSET Range(IgnorePaths) : Cardinality(q) <= MaxFiles}}

InitIgnore ==
  /\ fsys \in IgnoreDirs
  /\ exists = TRUE
  /\ output = FALSE
  /\ scanStart
  /\ srvIdle
  /\ fbIdle

SpecIgnore == InitIgnore /\ [][NextOnce]_vars

\* one of the components of the path is c
hasComponent(path, c) ==
  \E p \in 0..(Len(path) - Len(c)) :
    /\ StartsAt(path, c, p)
    /\ (p = 0 \/ CharAt(path, p - 1) = "/")
    /\ (p + Len(c) = Len(path) \/ CharAt(path, p + Len(c)) = "/")

\* C25: the collector returns a file if and only if its extension is one of
\* js, ts, jsx, tsx and none of its path components equals node_modules; a
\* longer component that contains node_modules does not exclude the file.
C25_IgnoresByComponent ==
  collected =>
    Range(files) =
      {target \o <<"/">> \o f.path :
         f \in {g \in fsys : /\ \E n \in 1..Len(extensions) : endsWith(g.path, <<".">> \o extensions[n])
                            /\ ~hasComponent(g.path, <<"n", "o", "d", "e", "_", "m", "o", "d", "u", "l", "e", "s">>)}}

-----------------------------------------------------------------------------
(* The scan of files that subscribe and unsubscribe in different files *)

CrossPaths == << <<"a", ".", "j", "s">>, <<"b", ".", "j", "s">>, <<"c", ".", "t", "s">> >>
CrossTexts == { <<"e", ".", "o", "n", "(", "\"", "d", "a", "t", "a", "\"", ",", " ", "c", "b", ")", ";">>, <<"e", ".", "o", "f", "f", "(", "\"", "d", "a", "t", "a", "\"", ",", " ", "c", "b", ")", ";">>,
                <<"e", ".", "o", "n", "(", "'", "d", "a", "t", "a", "'", ",", " ", "c", "b", ")", ";", " ", "e", ".", "r", "e", "m", "o", "v", "e", "L", "i", "s", "t", "e", "n", "e", "r", "(", "'", "d", "a", "t", "a", "'", ",", " ", "c", "b", ")", ";">>,
                <<"w", "h", "i", "l", "e", " ", "(", "t", "r", "u", "e", ")", " ", "{", " ", "x", "+", "+", ";", " ", "}", "\n", "w", "h", "i", "l", "e", " ", "(", "t", "r", "u", "e", ")", " ", "{", " ", "x", "+", "+", ";", " ", "}">>, <<"P", "r", "o", "m", "i", "s", "e", ".", "a", "l", "l", "(", "[", "]", ")", ";">>,
                <<"f", "o", "r", " ", "(", ";", ";", ")", " ", "{", " ", "x", "+", "+", ";", " ", "}", "\n", "e", ".", "o", "n", "(", "\"", "a", "(", "\"", ",", " ", "c", "b", ")", ";">> }

CrossDirs ==
  UNION {{ {[path |-> p, text |-> k[p], readable |-> TRUE] : p \in ps} : k \in [ps -> CrossTexts] } :
           ps \in {q \in SUBSET Range(CrossPaths) : Cardinality(q) <= MaxFiles}}

InitCross ==
  /\ fsys \in CrossDirs
  /\ exists = TRUE
  /\ output = FALSE
  /\ scanStart
  /\ srvIdle
  /\ fbIdle

SpecCross == InitCross /\ [][NextOnce]_vars

\* the findings held for the n-th collected file
findingsOf(n) == SelectSeq(findings, LAMBDA g : g.file = relative(files[n]))

C27_ReturnsOneScan ==
  /\ \A k \in 1..Len(returned) : returned[k].findings = returned[1].findings
  /\ (pc = "done" /\ output) => saved.summary.total = Len(returned[1].findings)

-----------------------------------------------------------------------------
(* Loop headers that are not followed by a brace block *)

\* the offset after the header that starts at p
HeaderEnd(t, p) == p + Len(CHOOSE h \in LoopHeaderSpellings : StartsAt(t, h, p))

\* the least offset from e on whose character is in cs, or the length of t
firstOf(t, e, cs) ==
  IF \E q \in e..(Len(t) - 1) : t[q + 1] \in cs
  THEN CHOOSE q \in e..(Len(t) - 1) : t[q + 1] \in cs /\ \A r \in e..(q - 1) : t[r + 1] \notin cs
  ELSE Len(t)

\* the header at p is followed by a single statement, not by a brace block
Braceless(t, p) ==
  CharAt(t, firstOf(t, HeaderEnd(t, p), Range(t) \ {" ", "\n"})) # "{"

\* the single-statement body of the header at p: up to its semicolon
OwnStatement(t, p) == substring(t, HeaderEnd(t, p), firstOf(t, HeaderEnd(t, p), {";"}) + 1)

\* the least depth findBlockEnd counts from state s on
RECURSIVE fbLowest(_, _)
fbLowest(t, s) ==
  IF s.ret >= 0 \/ s.i >= Len(t) THEN s.depth
  ELSE LET low(d) == IF d < s.depth THEN d ELSE s.depth
       IN  low(fbLowest(t, fbStep(t, s)))

\* C28: for a loop header followed by a single statement without braces, a
\* break or return in a later brace block of the file does not suppress the
\* critical finding (on every line the critical findings number at least the
\* brace-less headers whose statement has neither keyword), and the depth
\* counter of findBlockEnd never becomes negative while a block is resolved.
C28_BodyIsOwnStatement ==
  pc = "done" =>
    LET t == theText
        H == HeaderOffsets(t)
    IN  /\ \A line \in {LineAt(t, p) : p \in H} :
             criticalAt(line) >=
               Cardinality({p \in H : /\ LineAt(t, p) = line
                                      /\ Braceless(t, p)
                                      /\ NoExitKeyword(OwnStatement(t, p))})
        /\ \A p \in H : fbLowest(t, fbStart(p)) >= 0

-----------------------------------------------------------------------------
(* The backend server: the spectrum timer and POST /api/loops/detect *)

\* the sample sets generateSpectrumData() can draw with Math.random()
Samples == 1..MaxSamples

\* function generateSpectrumData(): nothing when scanning is off; otherwise
\* a new sample set is stored and the next call is scheduled in 100 ms
generateSpectrumData(pending) ==
  IF ~scanning'
  THEN /\ timers' = pending
       /\ UNCHANGED spectrum
  ELSE /\ spectrum' \in Samples
       /\ timers' = pending + 1

\* app.post('/api/spectrum/start')
SpectrumStart ==
  /\ timers < MaxTimers
  /\ scanning' = TRUE
  /\ generateSpectrumData(timers)
  /\ UNCHANGED <<reportFile, requests>>
  /\ UNCHANGED <<scanVars, fbVars>>

\* app.post('/api/spectrum/stop')
SpectrumStop ==
  /\ scanning' = FALSE
  /\ UNCHANGED <<timers, spectrum, reportFile, requests>>
  /\ UNCHANGED <<scanVars, fbVars>>

\* a timer set by setTimeout(generateSpectrumData, 100) fires
SpectrumTick ==
  /\ timers > 0
  /\ UNCHANGED scanning
  /\ generateSpectrumData(timers - 1)
  /\ UNCHANGED <<reportFile, requests>>
  /\ UNCHANGED <<scanVars, fbVars>>

\* how the scan of a spawned detect-loops.js ends: detect() completes with
\* so many findings and saveReport() writes them, or detect() rejects
ScanOutcomes ==
  {[ok |-> TRUE, total |-> n] : n \in 0..MaxTotal} \cup {[ok |-> FALSE, total |-> 0]}

\* ./loop-report.json as a run of detect-loops.js leaves it
ReportFiles == {NoFile} \cup {[exists |-> TRUE, total |-> n] : n \in 0..MaxTotal}

\* app.post('/api/loops/detect'): exec(`node ... --output=./loop-report.json`)
LoopsDetect(r) ==
  /\ requests[r].phase = "none"
  /\ requests' = [requests EXCEPT ![r] = [phase |-> "running"]]
  /\ UNCHANGED <<scanning, timers, spectrum, reportFile>>
  /\ UNCHANGED <<scanVars, fbVars>>

\* the spawned process runs main(): saveReport() writes the report of a
\* completed scan to ./loop-report.json; then the process exits
ChildScan(r) ==
  /\ requests[r].phase = "running"
  /\ \E o \in ScanOutcomes :
       /\ requests' = [requests EXCEPT ![r] = [phase |-> "exited", ok |-> o.ok, total |-> o.total]]
       /\ reportFile' = IF o.ok THEN [exists |-> TRUE, total |-> o.total] ELSE reportFile
  /\ UNCHANGED <<scanning, timers, spectrum>>
  /\ UNCHANGED <<scanVars, fbVars>>

\* the callback of exec: loops is summary.total of ./loop-report.json when
\* the file exists, else 0; res.json({ loops, ... })
ExecCallback(r) ==
  /\ requests[r].phase = "exited"
  /\ requests' = [requests EXCEPT ![r] =
                    [phase |-> "responded", ok |-> @.ok, total |-> @.total,
                     loops |-> IF reportFile.exists THEN reportFile.total ELSE 0]]
  /\ UNCHANGED <<scanning, timers, spectrum, reportFile>>
  /\ UNCHANGED <<scanVars, fbVars>>

NextServer ==
  \/ SpectrumStart
  \/ SpectrumStop
  \/ SpectrumTick
  \/ \E r \in 1..MaxRequests : LoopsDetect(r)
  \/ \E r \in 1..MaxRequests : ChildScan(r)
  \/ \E r \in 1..MaxRequests : ExecCallback(r)

\* the server after start-up, with whatever an earlier run left as
\* ./loop-report.json
InitServer ==
  /\ scanning = FALSE
  /\ timers = 0
  /\ spectrum = 0
  /\ reportFile \in ReportFiles
  /\ requests = [r \in 1..MaxRequests |-> [phase |-> "none"]]
  /\ fsys = {}
  /\ exists = TRUE
  /\ output = FALSE
  /\ scanStart
  /\ fbIdle

SpecServer == InitServer /\ [][NextServer]_vars

\* C29: at most one generateSpectrumData timer chain is pending at any time,
\* for every sequence of start and stop requests and timer ticks.
C29_OneTimerChain == timers <= 1

\* C30: the loops count of every response is summary.total of the report
\* written by the scan that the request started, and 0 when that scan failed
\* and wrote none: never the total of a report left by an earlier run or
\* written for another request.
C30_OwnReport ==
  \A r \in 1..MaxRequests :
    requests[r].phase = "responded" =>
      requests[r].loops = IF requests[r].ok THEN requests[r].total ELSE 0

====
